---------------------------- MODULE Spec2Model ----------------------------
(***************************************************************************)
(* Model of src/rawalpindi_no_app_restaurants.py: the tiled, retrying,     *)
(* multi-mirror Overpass acquisition, the cross-tile de-duplication, the   *)
(* normalisation of elements into restaurants, the website classifier and  *)
(* the audit / no-app outputs of main().                                   *)
(*                                                                         *)
(* Conventions.  Python's None is the string None below; a tag value or a  *)
(* URL is a record, so that strip / lower / normalisation are computed and *)
(* not the identity.  Coordinates are integers in units of 1e-5 degree,    *)
(* confidences are integers in units of 1/1000.                            *)
(***************************************************************************)
EXTENDS Integers, Sequences, FiniteSets

None == "<None>"

(***************************************************************************)
(* Bounds of the model (not program constants).                            *)
(***************************************************************************)
\* Total number of elements all tile responses of one run may carry.
MaxRaw == 2
\* Number of tiles of a run.  The configuration (TILE_ROWS = TILE_COLS = 3)
\* makes 9; overpass_fetch_restaurants_tiled treats every tile alike.
NumTiles == 2

\* The binary floating-point format the tile arithmetic is computed in: the
\* number of bits of its significand (a Python float has 53).
MantissaBits == 3

\* The largest coordinate of a bounding box handed to tile_bbox, and the
\* largest row and column count.
MaxCoord == 8
MaxRows == 3

(***************************************************************************)
(* Program constants.                                                      *)
(***************************************************************************)
NumEndpoints == 3
max_attempts == 4
\* NO_APP_CONF_THRESHOLD = 0.80, in 1/100 (the unit of the formatted column).
NO_APP_CONF_THRESHOLD == 80

OVERPASS_ENDPOINTS == 1..NumEndpoints


(***************************************************************************)
(* Strings.  A name or URL tag is a record so that str.strip and           *)
(* str.lower are computed: pad says whether the text is surrounded by      *)
(* whitespace, text is the text without it.  A tag that is absent          *)
(* (dict.get gives None) has text = None.                                  *)
(***************************************************************************)
Str(pad, text) == [pad |-> pad, text |-> text]
NoStr == Str(FALSE, None)

\* Python truthiness of an optional string: None and "" are falsy; a string
\* holding only whitespace is truthy.
Truthy(s) == s.text # None /\ (s.text # "" \/ s.pad)

\* str.lower on the texts of the model.
LowerText(t) ==
  CASE t = "Cafe X" -> "cafe x"
    [] t = "CAFE X" -> "cafe x"
    [] t = "Bistro" -> "bistro"
    [] t = "Diner" -> "diner"
    [] t = "CafeX.com" -> "cafex.com"
    [] OTHER -> t

\* (s or "").strip().lower(), as dedupe_key applies it to the name.
StripLower(s) == IF s.text = None THEN "" ELSE LowerText(s.text)

(***************************************************************************)
(* URLs.  A URL string is [pad, scheme, host]: scheme "" means the string  *)
(* has no "http://" / "https://" prefix, host is what follows the prefix.  *)
(* The host "[bad" stands for a string such as "http://[bad", on which     *)
(* urllib.parse.urlparse raises ValueError (Invalid IPv6 URL).             *)
(***************************************************************************)
Url(pad, scheme, host) == [pad |-> pad, scheme |-> scheme, host |-> host]
NoUrl == Url(FALSE, "", None)
EmptyUrl == Url(FALSE, "", "")

UrlTruthy(u) == u.host # None /\ (u.host # "" \/ u.scheme # "" \/ u.pad)

\* urlparse(url) raises ValueError.
UrlParseRaises(u) == u.host = "[bad"

\* normalize_url: None (NoUrl) when the value is empty, blank, unparsable or
\* has no host; otherwise the stripped string, prefixed with https:// when it
\* has no http(s) prefix.
normalize_url(url) ==
  IF ~UrlTruthy(url) THEN NoUrl
  ELSE LET stripped == Url(FALSE, url.scheme, url.host) IN
       IF ~UrlTruthy(stripped) THEN NoUrl
       ELSE LET prefixed == IF stripped.scheme \in {"http", "https"}
                            THEN stripped
                            ELSE Url(FALSE, "https", stripped.host) IN
            IF UrlParseRaises(prefixed) THEN NoUrl
            ELSE IF prefixed.scheme \notin {"http", "https"} THEN NoUrl
            ELSE IF prefixed.host = "" THEN NoUrl
            ELSE prefixed

\* (website or "").strip().lower()
LowerUrl(u) == IF u.host = None THEN EmptyUrl
               ELSE Url(FALSE, u.scheme, LowerText(u.host))

(***************************************************************************)
(* Overpass elements.  lat / lon / center are in 1e-5 degree; NoCoord is   *)
(* an absent coordinate.  Only the tags main() reads for the name, the     *)
(* website and the coordinates are kept.                                   *)
(***************************************************************************)
NoCoord == 0 - 1

Element(type, id, name, website, contact_website, url, lat, lon, clat, clon) ==
  [type |-> type, id |-> id, name |-> name, website |-> website,
   contact_website |-> contact_website, url |-> url,
   lat |-> lat, lon |-> lon, clat |-> clat, clon |-> clon]

ElCafeNode ==
  Element("node", 1, Str(FALSE, "Cafe X"), Url(FALSE, "", "cafex.com"),
          NoUrl, NoUrl, 3360002, 7305002, NoCoord, NoCoord)
\* The same node as another tile may return it, without its name tag.
ElCafeNodeNameless ==
  Element("node", 1, NoStr, Url(FALSE, "", "cafex.com"),
          NoUrl, NoUrl, 3360002, 7305002, NoCoord, NoCoord)
\* Another OSM object mapping the same restaurant.
ElCafeWay ==
  Element("way", 2, Str(FALSE, "CAFE X"), NoUrl, NoUrl,
          Url(TRUE, "https", "CafeX.com"), NoCoord, NoCoord, 3360004, 7305004)
ElBistroBadUrl ==
  Element("node", 3, Str(FALSE, "Bistro"), Url(FALSE, "http", "[bad"),
          NoUrl, NoUrl, NoCoord, NoCoord, NoCoord, NoCoord)
ElBistroNoSite ==
  Element("relation", 4, Str(TRUE, "Bistro"), NoUrl, NoUrl, NoUrl,
          NoCoord, NoCoord, NoCoord, NoCoord)
ElDiner ==
  Element("node", 5, Str(FALSE, "Diner"), NoUrl, Url(TRUE, "", "diner.pk"),
          NoUrl, 3360008, 7305008, NoCoord, NoCoord)

Elements == {ElCafeNode, ElCafeNodeNameless, ElCafeWay, ElBistroBadUrl,
             ElBistroNoSite, ElDiner}

\* All sequences over S of length at most n.
SeqsUpTo(S, n) == UNION {[1..k -> S] : k \in 0..n}


(***************************************************************************)
(* State.                                                                  *)
(*   pc            where main() is: "fetch" (overpass_fetch_restaurants_   *)
(*                 tiled is running), "normalize", "classify", "emit",     *)
(*                 "done", or "aborted" (an exception left main)           *)
(*   tile          index (from 1) of the tile being fetched                *)
(*   endpoint, attempt   the mirror and attempt of the next request        *)
(*   last_err      overpass_post_with_retries' last_err                    *)
(*   all_elements, seen_ids   overpass_fetch_restaurants_tiled's locals,   *)
(*                 then main's elements                                    *)
(*   restaurants, seen, audit_rows   main's locals                         *)
(*   audit_csv, no_app_csv   the two files: whether written, and the rows  *)
(*   error         the exception that ended the run                        *)
(* History of the environment, kept for the properties:                    *)
(*   sent, sleeps  requests posted and backoff sleeps of the most recent   *)
(*                 call of overpass_post_with_retries                      *)
(*   lastResp      the answer to the most recent request                   *)
(*   ret           how the most recent call ended ("pending": running)     *)
(*   json_errors   how the installed requests raises an undecodable body:  *)
(*                 "unknown" until one was met, then "RequestException"    *)
(*   raw           the elements of the decodable 200 answers, in order     *)
(*   data          what the most recent call returned (its "elements")     *)
(*   exhausted     tiles for which every mirror/attempt failed             *)
(*   lastSite      the behaviour of the website inspected last             *)
(*   scraped       the indices (from 1, in restaurants) of the calls of    *)
(*                 scrape_website_for_app_links, in order                  *)
(* tile_bbox examined on its own (the acquisition loop above takes its     *)
(* tiles as given):                                                        *)
(*   bbox, nrows, ncols   the arguments bbox, rows, cols of the call       *)
(*   tiles         its result (<<>> before the call)                       *)
(***************************************************************************)
VARIABLES pc, tile, endpoint, attempt, last_err, all_elements, seen_ids,
          restaurants, seen, audit_rows, audit_csv, no_app_csv, error,
          sent, sleeps, lastResp, ret, json_errors, raw, data, exhausted,
          lastSite, scraped, bbox, nrows, ncols, tiles

vars == <<pc, tile, endpoint, attempt, last_err, all_elements, seen_ids,
          restaurants, seen, audit_rows, audit_csv, no_app_csv, error,
          sent, sleeps, lastResp, ret, json_errors, raw, data, exhausted,
          lastSite, scraped, bbox, nrows, ncols, tiles>>

fetchVars == <<tile, endpoint, attempt, last_err, sent, sleeps, lastResp,
               ret, json_errors, raw, data, exhausted>>
mainVars == <<restaurants, seen, audit_rows, audit_csv, no_app_csv, lastSite,
              scraped>>

tileVars == <<bbox, nrows, ncols, tiles>>
progVars == <<pc, tile, endpoint, attempt, last_err, all_elements, seen_ids,
              restaurants, seen, audit_rows, audit_csv, no_app_csv, error,
              sent, sleeps, lastResp, ret, json_errors, raw, data, exhausted,
              lastSite, scraped>>

NoErr == [endpoint |-> 0, detail |-> None]
NoError == [type |-> None, last_err |-> NoErr]
NotWritten == [written |-> FALSE, rows |-> <<>>]
NoSite == [exc |-> None, status |-> 0, hrefs |-> {}, hint |-> FALSE]

\* main() is about to start.
MainInit ==
  /\ pc = "fetch"
  /\ tile = 1
  /\ endpoint = 1
  /\ attempt = 1
  /\ last_err = NoErr
  /\ all_elements = <<>>
  /\ seen_ids = {}
  /\ restaurants = <<>>
  /\ seen = {}
  /\ audit_rows = <<>>
  /\ audit_csv = NotWritten
  /\ no_app_csv = NotWritten
  /\ error = NoError
  /\ sent = <<>>
  /\ sleeps = <<>>
  /\ lastResp = None
  /\ ret = "pending"
  /\ json_errors = "unknown"
  /\ raw = <<>>
  /\ data = <<>>
  /\ exhausted = {}
  /\ lastSite = NoSite
  /\ scraped = <<>>

Init ==
  /\ MainInit
  /\ bbox = <<0, 0, 0, 0>>
  /\ nrows = 0
  /\ ncols = 0
  /\ tiles = <<>>

(***************************************************************************)
(* overpass_post_with_retries and overpass_fetch_restaurants_tiled.        *)
(***************************************************************************)
\* A delay that grows by two seconds per attempt.
BackoffLinear(a) == 2 * a

\* sleep_s = 2 ** attempt
Backoff(a) == 2 ^ a

\* A retry loop that rotates the mirrors on every failure.
NextRequestRoundRobin(e, a) ==
  IF e < NumEndpoints THEN <<e + 1, a>>
  ELSE IF a < max_attempts THEN <<1, a + 1>>
  ELSE <<0, 0>>

\* The two nested for loops: the request that follows a failed attempt a on
\* mirror e; <<0, 0>> when both loops are over.
NextRequest(e, a) ==
  IF a < max_attempts THEN <<e, a + 1>>
  ELSE IF e < NumEndpoints THEN <<e + 1, 1>>
  ELSE <<0, 0>>

\* key = (el.get("type"), el.get("id"))
IdKey(el) == <<el.type, el.id>>

\* A de-duplication that compares whole elements instead of their keys.
RECURSIVE DedupeByValue(_, _, _)
DedupeByValue(all, ids, els) ==
  IF els = <<>> THEN <<all, ids>>
  ELSE LET el == Head(els) IN
       IF \E i \in 1..Len(all) : all[i] = el
       THEN DedupeByValue(all, ids, Tail(els))
       ELSE DedupeByValue(Append(all, el), ids \cup {IdKey(el)}, Tail(els))

\* The de-duplication loop over one tile's elements: the pair
\* <<all_elements, seen_ids>> after it.
RECURSIVE DedupeInto(_, _, _)
DedupeInto(all, ids, els) ==
  IF els = <<>> THEN <<all, ids>>
  ELSE LET el == Head(els) IN
       IF IdKey(el) \in ids
       THEN DedupeInto(all, ids, Tail(els))
       ELSE DedupeInto(Append(all, el), ids \cup {IdKey(el)}, Tail(els))

\* The history of the call in progress (a new call starts from nothing).
CallSent == IF ret = "pending" THEN sent ELSE <<>>
CallSleeps == IF ret = "pending" THEN sleeps ELSE <<>>

\* requests.post(endpoint, ...) is sent and answered.
Posted(answer) ==
  /\ pc = "fetch"
  /\ sent' = Append(CallSent, <<endpoint, attempt>>)
  /\ lastResp' = answer

\* A tile loop that catches the error and goes on with the next tile.
TileFetchSkipped(le) ==
  /\ pc' = IF tile = NumTiles THEN "normalize" ELSE "fetch"
  /\ error' = error
  /\ ret' = "skipped"
  /\ tile' = tile + 1
  /\ endpoint' = 1
  /\ attempt' = 1
  /\ UNCHANGED <<all_elements, seen_ids>>

\* raise RuntimeError(...): nothing catches it in
\* overpass_fetch_restaurants_tiled or in main, so the run ends.
TileFetchFailed(le) ==
  /\ pc' = "aborted"
  /\ error' = [type |-> "RuntimeError", last_err |-> le]
  /\ ret' = "RuntimeError"
  /\ UNCHANGED <<tile, endpoint, attempt, all_elements, seen_ids>>

\* A retry loop that keeps the first error it met instead of the last.
AttemptFailedKeepsFirst(detail) ==
  LET le == IF last_err = NoErr
            THEN [endpoint |-> endpoint, detail |-> detail]
            ELSE last_err
      nx == NextRequest(endpoint, attempt)
  IN /\ last_err' = le
     /\ sleeps' = Append(CallSleeps, Backoff(attempt))
     /\ IF nx = <<0, 0>>
        THEN /\ exhausted' = exhausted \cup {tile}
             /\ TileFetchFailed(le)
        ELSE /\ endpoint' = nx[1]
             /\ attempt' = nx[2]
             /\ ret' = "pending"
             /\ UNCHANGED <<pc, tile, error, all_elements, seen_ids, exhausted>>

\* The end of a failed attempt: last_err is set, the backoff sleep is taken,
\* and the loops go on or, when they are over, the RuntimeError is raised.
AttemptFailed(detail) ==
  LET le == [endpoint |-> endpoint, detail |-> detail]
      nx == NextRequest(endpoint, attempt)
  IN /\ last_err' = le
     /\ sleeps' = Append(CallSleeps, Backoff(attempt))
     /\ IF nx = <<0, 0>>
        THEN /\ exhausted' = exhausted \cup {tile}
             /\ TileFetchFailed(le)
        ELSE /\ endpoint' = nx[1]
             /\ attempt' = nx[2]
             /\ ret' = "pending"
             /\ UNCHANGED <<pc, tile, error, all_elements, seen_ids, exhausted>>

\* A retry loop that leaves its loops on a 200 answer and raises after them
\* when an earlier attempt had failed.
TileFetchedUnlessErr(body) ==
  IF last_err = NoErr
  THEN /\ data' = body
       /\ LET d == DedupeInto(all_elements, seen_ids, data') IN
            /\ all_elements' = d[1]
            /\ seen_ids' = d[2]
       /\ ret' = "ok"
       /\ tile' = tile + 1
       /\ pc' = IF tile = NumTiles THEN "normalize" ELSE "fetch"
       /\ endpoint' = 1
       /\ attempt' = 1
       /\ last_err' = NoErr
       /\ error' = error
  ELSE /\ data' = data
       /\ pc' = "aborted"
       /\ error' = [type |-> "RuntimeError", last_err |-> last_err]
       /\ ret' = "RuntimeError"
       /\ UNCHANGED <<tile, endpoint, attempt, last_err, all_elements, seen_ids>>

\* return r.json(), then the rest of the tile loop's turn: the elements of
\* the data are de-duplicated into all_elements and the loop goes to the next
\* tile (or returns all_elements to main after the last one).
TileFetched(body) ==
  /\ data' = body
  /\ LET d == DedupeInto(all_elements, seen_ids, data') IN
       /\ all_elements' = d[1]
       /\ seen_ids' = d[2]
  /\ ret' = "ok"
  /\ tile' = tile + 1
  /\ pc' = IF tile = NumTiles THEN "normalize" ELSE "fetch"
  /\ endpoint' = 1
  /\ attempt' = 1
  /\ last_err' = NoErr
  /\ error' = error

\* status 200 and r.json() decodes.
PostOk(body) ==
  /\ Posted("ok")
  /\ Len(raw) + Len(body) <= MaxRaw
  /\ raw' = raw \o body
  /\ sleeps' = CallSleeps
  /\ TileFetched(body)
  /\ UNCHANGED <<json_errors, exhausted>>
  /\ UNCHANGED mainVars
  /\ UNCHANGED tileVars

\* A status other than 200.
PostHttpError ==
  /\ Posted("HTTP 500")
  /\ AttemptFailed("HTTP 500")
  /\ UNCHANGED <<json_errors, raw, data>>
  /\ UNCHANGED mainVars
  /\ UNCHANGED tileVars

\* requests.post raises a RequestException.
PostTransportError ==
  /\ Posted("ConnectionError")
  /\ AttemptFailed("ConnectionError")
  /\ UNCHANGED <<json_errors, raw, data>>
  /\ UNCHANGED mainVars
  /\ UNCHANGED tileVars

\* status 200 with a body that is not JSON, under requests >= 2.27: r.json()
\* raises requests.exceptions.JSONDecodeError, a RequestException, which the
\* except clause catches like a transport failure.
PostBadJsonCaught ==
  /\ Posted("bad_json")
  /\ json_errors' = "RequestException"
  /\ AttemptFailed("JSONDecodeError")
  /\ UNCHANGED <<raw, data>>
  /\ UNCHANGED mainVars
  /\ UNCHANGED tileVars

\* The same under requests < 2.27: r.json() raises a plain ValueError
\* (json.JSONDecodeError), which nothing catches, so the run ends.
PostBadJsonPropagates ==
  /\ json_errors = "unknown"
  /\ Posted("bad_json")
  /\ pc' = "aborted"
  /\ error' = [type |-> "JSONDecodeError", last_err |-> last_err]
  /\ ret' = "JSONDecodeError"
  /\ sleeps' = CallSleeps
  /\ UNCHANGED <<tile, endpoint, attempt, last_err, all_elements, seen_ids,
                 json_errors, raw, data, exhausted>>
  /\ UNCHANGED mainVars
  /\ UNCHANGED tileVars

Post ==
  \/ \E body \in SeqsUpTo(Elements, MaxRaw - Len(raw)) : PostOk(body)
  \/ PostHttpError
  \/ PostTransportError
  \/ PostBadJsonCaught
  \/ PostBadJsonPropagates

(***************************************************************************)
(* main(): normalisation of the elements into restaurants.                 *)
(***************************************************************************)
\* round(x, 4) of a coordinate given in 1e-5 degree, in 1e-4 degree (a tie
\* goes to the even neighbour).
Round4(x) ==
  LET q == x \div 10
      r == x % 10
  IN IF r < 5 THEN q
     ELSE IF r > 5 THEN q + 1
     ELSE IF q % 2 = 0 THEN q ELSE q + 1

\* A key that takes the coordinates as they are.
dedupe_key_unrounded(name, website, lat, lon) ==
  LET n == StripLower(name)
      w == LowerUrl(website)
  IN IF lat = NoCoord \/ lon = NoCoord
     THEN [n |-> n, w |-> w, coords |-> <<>>]
     ELSE [n |-> n, w |-> w, coords |-> <<lat, lon>>]

\* dedupe_key: the three parts of the "|"-joined string.
dedupe_key(name, website, lat, lon) ==
  LET n == StripLower(name)
      w == LowerUrl(website)
  IN IF lat = NoCoord \/ lon = NoCoord
     THEN [n |-> n, w |-> w, coords |-> <<>>]
     ELSE [n |-> n, w |-> w, coords |-> <<Round4(lat), Round4(lon)>>]

\* tags.get("website") or tags.get("contact:website") or tags.get("url")
WebsiteTag(el) ==
  IF UrlTruthy(el.website) THEN el.website
  ELSE IF UrlTruthy(el.contact_website) THEN el.contact_website
  ELSE el.url

\* website = normalize_url(website) if website else None; website or ""
WebsiteOf(el) ==
  LET tag == WebsiteTag(el)
      website == IF UrlTruthy(tag) THEN normalize_url(tag) ELSE NoUrl
  IN IF UrlTruthy(website) THEN website ELSE EmptyUrl

\* lat / lon of the element itself, else those of its center.
LatOf(el) == IF el.lat = NoCoord \/ el.lon = NoCoord THEN el.clat ELSE el.lat
LonOf(el) == IF el.lat = NoCoord \/ el.lon = NoCoord THEN el.clon ELSE el.lon

KeyOf(el) == dedupe_key(el.name, WebsiteOf(el), LatOf(el), LonOf(el))

RestaurantOf(el) ==
  [name |-> el.name, website |-> WebsiteOf(el), lat |-> LatOf(el),
   lon |-> LonOf(el), osm_type |-> el.type, osm_id |-> el.id]

\* A loop without the test of the name.
RECURSIVE NormalizeIntoKeepsNameless(_, _, _)
NormalizeIntoKeepsNameless(rs, keys, els) ==
  IF els = <<>> THEN <<rs, keys>>
  ELSE LET el == Head(els) IN
       IF KeyOf(el) \in keys THEN NormalizeIntoKeepsNameless(rs, keys, Tail(els))
       ELSE NormalizeIntoKeepsNameless(Append(rs, RestaurantOf(el)),
                                       keys \cup {KeyOf(el)}, Tail(els))

\* The loop "for el in elements": the pair <<restaurants, seen>> after it.
RECURSIVE NormalizeInto(_, _, _)
NormalizeInto(rs, keys, els) ==
  IF els = <<>> THEN <<rs, keys>>
  ELSE LET el == Head(els) IN
       IF ~Truthy(el.name) THEN NormalizeInto(rs, keys, Tail(els))
       ELSE IF KeyOf(el) \in keys THEN NormalizeInto(rs, keys, Tail(els))
       ELSE NormalizeInto(Append(rs, RestaurantOf(el)),
                          keys \cup {KeyOf(el)}, Tail(els))

Normalize ==
  /\ pc = "normalize"
  /\ LET n == NormalizeInto(<<>>, {}, all_elements) IN
       /\ restaurants' = n[1]
       /\ seen' = n[2]
       /\ pc' = IF n[1] = <<>> THEN "emit" ELSE "classify"
  \* The acquisition is over: its history is dropped.
  /\ sent' = <<>>
  /\ sleeps' = <<>>
  /\ lastResp' = None
  /\ raw' = <<>>
  /\ data' = <<>>
  /\ UNCHANGED <<all_elements, seen_ids, audit_rows, audit_csv, no_app_csv,
                 error, lastSite, scraped>>
  /\ UNCHANGED <<tile, endpoint, attempt, last_err, ret, json_errors, exhausted>>
  /\ UNCHANGED tileVars

(***************************************************************************)
(* scrape_website_for_app_links.  A website's behaviour is                 *)
(*   exc     the RequestException requests.get raises, or None             *)
(*   status  the status of the answer                                      *)
(*   hrefs   the kinds of href values the page's anchors hold              *)
(*   hint    whether the page text matches APP_TEXT_HINT_RE                *)
(* with an href being one of                                               *)
(*   "play_details"  https://play.google.com/store/apps/details?id=com.x   *)
(*   "play_home"     https://play.google.com/store (no details?id=)        *)
(*   "apple"         https://apps.apple.com/app/x                          *)
(*   "bad"           http://[ , on which urljoin raises ValueError         *)
(***************************************************************************)
HrefKinds == {"play_details", "play_home", "apple", "bad"}

Site(exc, status, hrefs, hint) ==
  [exc |-> exc, status |-> status, hrefs |-> hrefs, hint |-> hint]

Sites ==
  {Site("ConnectionError", 0, {}, FALSE), Site(None, 404, {}, FALSE)}
  \cup {Site(None, 200, h, t) : h \in SUBSET HrefKinds, t \in BOOLEAN}

PLAYSTORE_RE(h) == h = "play_details"
APPLE_APPS_RE(h) == h = "apple"
UrljoinRaises(h) == h = "bad"

\* next((h for h in hrefs if PLAYSTORE_RE.search(h)), None)
FirstPlay(hrefs) ==
  IF \E h \in hrefs : PLAYSTORE_RE(h)
  THEN CHOOSE h \in hrefs : PLAYSTORE_RE(h)
  ELSE None

\* next((h for h in hrefs if APPLE_APPS_RE.search(h)), None)
FirstApple(hrefs) ==
  IF \E h \in hrefs : APPLE_APPS_RE(h)
  THEN CHOOSE h \in hrefs : APPLE_APPS_RE(h)
  ELSE None

Note(code, arg) == [code |-> code, arg |-> arg]

\* str(resp.status_code) in f"http_{resp.status_code}"
StatusText(st) == IF st = 404 THEN "404" ELSE "other"

\* The result dictionary; confidence in 1/1000.
Verdict(android, ios, notes, confidence) ==
  [has_android_app |-> android # None, has_ios_app |-> ios # None,
   evidence_android_url |-> android, evidence_ios_url |-> ios,
   notes |-> notes, confidence |-> confidence]

\* A classifier that reports a store link only when links to both stores
\* were found, while the flags are set for each store on its own.
ClassifyPageBothStores(site) ==
  IF \E h \in site.hrefs : UrljoinRaises(h)
  THEN Verdict(None, None, Note("parse_error:", "ValueError"), 200)
  ELSE LET play == FirstPlay(site.hrefs)
           apple == FirstApple(site.hrefs)
       IN IF play # None /\ apple # None
          THEN Verdict(play, apple, Note("store_link_found_on_website", ""), 950)
          ELSE IF site.hint
          THEN Verdict(play, apple, Note("app_text_hint_but_no_store_link", ""), 600)
          ELSE Verdict(play, apple, Note("no_store_links_found_on_homepage", ""), 850)

\* A classifier that is as confident of a text hint as of its absence.
ClassifyPageHintConfident(site) ==
  IF \E h \in site.hrefs : UrljoinRaises(h)
  THEN Verdict(None, None, Note("parse_error:", "ValueError"), 200)
  ELSE LET play == FirstPlay(site.hrefs)
           apple == FirstApple(site.hrefs)
       IN IF play # None \/ apple # None
          THEN Verdict(play, apple, Note("store_link_found_on_website", ""), 950)
          ELSE IF site.hint
          THEN Verdict(None, None, Note("app_text_hint_but_no_store_link", ""), 850)
          ELSE Verdict(None, None, Note("no_store_links_found_on_homepage", ""), 850)

\* A classifier that tests the page text before the links.
ClassifyPageHintFirst(site) ==
  IF \E h \in site.hrefs : UrljoinRaises(h)
  THEN Verdict(None, None, Note("parse_error:", "ValueError"), 200)
  ELSE IF site.hint
  THEN Verdict(None, None, Note("app_text_hint_but_no_store_link", ""), 600)
  ELSE LET play == FirstPlay(site.hrefs)
           apple == FirstApple(site.hrefs)
       IN IF play # None \/ apple # None
          THEN Verdict(play, apple, Note("store_link_found_on_website", ""), 950)
          ELSE Verdict(None, None, Note("no_store_links_found_on_homepage", ""), 850)

\* The verdict for a page fetched with a status below 400 (the try block
\* from BeautifulSoup(...) on, with its except Exception clause).
ClassifyPage(site) ==
  IF \E h \in site.hrefs : UrljoinRaises(h)
  THEN Verdict(None, None, Note("parse_error:", "ValueError"), 200)
  ELSE LET play == FirstPlay(site.hrefs)
           apple == FirstApple(site.hrefs)
       IN IF play # None \/ apple # None
          THEN Verdict(play, apple, Note("store_link_found_on_website", ""), 950)
          ELSE IF site.hint
          THEN Verdict(None, None, Note("app_text_hint_but_no_store_link", ""), 600)
          ELSE Verdict(None, None, Note("no_store_links_found_on_homepage", ""), 850)

scrape_website_for_app_links(website_url, site) ==
  IF ~UrlTruthy(normalize_url(website_url))
  THEN Verdict(None, None, Note("invalid_website_url", ""), 100)
  ELSE IF site.exc # None
  THEN Verdict(None, None, Note("request_error:", site.exc), 200)
  ELSE IF site.status >= 400
  THEN Verdict(None, None, Note("http_", StatusText(site.status)), 200)
  ELSE ClassifyPage(site)

(***************************************************************************)
(* main(): the audit rows and the two outputs.                             *)
(***************************************************************************)
\* The verdict of a restaurant without website.
NoWebsiteVerdict ==
  Verdict(None, None, Note("no_website_in_osm", ""), 200)

\* int(b)
BoolInt(b) == IF b THEN 1 ELSE 0

\* f"{confidence:.2f}": the value in 1/100, rounded from 1/1000.
Fmt2(c) == Round4(c)

\* url or ""
OrEmpty(u) == IF u = None THEN "" ELSE u

AuditRow(r, appinfo) ==
  [name |-> r.name, website |-> r.website, lat |-> r.lat, lon |-> r.lon,
   osm_type |-> r.osm_type, osm_id |-> r.osm_id,
   has_android_app |-> BoolInt(appinfo.has_android_app),
   has_ios_app |-> BoolInt(appinfo.has_ios_app),
   has_any_app |-> BoolInt(appinfo.has_android_app \/ appinfo.has_ios_app),
   evidence_android_url |-> OrEmpty(appinfo.evidence_android_url),
   evidence_ios_url |-> OrEmpty(appinfo.evidence_ios_url),
   notes |-> appinfo.notes,
   confidence |-> Fmt2(appinfo.confidence)]

\* A loop whose classifier lets the RequestException of requests.get out.
ClassifiedOrRaises(appinfo, site) ==
  /\ pc = "classify"
  /\ lastSite' = site
  /\ IF site.exc # None
     THEN /\ pc' = "aborted"
          /\ error' = [type |-> site.exc, last_err |-> NoErr]
          /\ UNCHANGED audit_rows
     ELSE /\ audit_rows' = Append(audit_rows,
                                  AuditRow(restaurants[Len(audit_rows) + 1], appinfo))
          /\ pc' = IF Len(audit_rows) + 1 = Len(restaurants)
                   THEN "emit" ELSE "classify"
          /\ UNCHANGED error
  /\ UNCHANGED <<all_elements, seen_ids, restaurants, seen, audit_csv, no_app_csv>>
  /\ UNCHANGED fetchVars
  /\ UNCHANGED tileVars

\* One turn of "for idx, r in enumerate(restaurants, start=1)".
Classified(appinfo, site) ==
  /\ pc = "classify"
  /\ audit_rows' = Append(audit_rows,
                          AuditRow(restaurants[Len(audit_rows) + 1], appinfo))
  /\ lastSite' = site
  /\ pc' = IF Len(audit_rows) + 1 = Len(restaurants) THEN "emit" ELSE "classify"
  /\ UNCHANGED <<all_elements, seen_ids, restaurants, seen, audit_csv,
                 no_app_csv, error>>
  /\ UNCHANGED fetchVars
  /\ UNCHANGED tileVars

\* A loop that calls the classifier for every restaurant.
HasWebsiteAlways(r) == TRUE

\* if r["website"]:
HasWebsite(r) == UrlTruthy(r.website)

\* appinfo = scrape_website_for_app_links(r["website"])
ClassifyWebsite ==
  /\ pc = "classify"
  /\ HasWebsite(restaurants[Len(audit_rows) + 1])
  /\ scraped' = Append(scraped, Len(audit_rows) + 1)
  /\ \E site \in Sites :
       Classified(scrape_website_for_app_links(
                    restaurants[Len(audit_rows) + 1].website, site), site)

\* else: the fixed verdict, without any call.
ClassifyNoWebsite ==
  /\ pc = "classify"
  /\ ~HasWebsite(restaurants[Len(audit_rows) + 1])
  /\ scraped' = scraped
  /\ Classified(NoWebsiteVerdict, NoSite)

\* A filter without the confidence threshold.
IsNoAppAnyConfidence(row) ==
  /\ UrlTruthy(row.website)
  /\ row.has_any_app = 0
  /\ row.notes \in {Note("no_store_links_found_on_homepage", ""),
                    Note("app_text_hint_but_no_store_link", "")}

\* The condition of the no_app_rows comprehension.
IsNoApp(row) ==
  /\ UrlTruthy(row.website)
  /\ row.has_any_app = 0
  /\ row.confidence >= NO_APP_CONF_THRESHOLD
  /\ row.notes \in {Note("no_store_links_found_on_homepage", ""),
                    Note("app_text_hint_but_no_store_link", "")}

\* [row for row in rows if IsNoApp(row)]
RECURSIVE NoAppRows(_)
NoAppRows(rows) ==
  IF rows = <<>> THEN <<>>
  ELSE IF IsNoApp(Head(rows)) THEN <<Head(rows)>> \o NoAppRows(Tail(rows))
  ELSE NoAppRows(Tail(rows))

\* Both files are written.
Emit ==
  /\ pc = "emit"
  /\ audit_csv' = [written |-> TRUE, rows |-> audit_rows]
  /\ no_app_csv' = [written |-> TRUE, rows |-> NoAppRows(audit_rows)]
  /\ pc' = "done"
  /\ UNCHANGED <<all_elements, seen_ids, restaurants, seen, audit_rows,
                 error, lastSite, scraped>>
  /\ UNCHANGED fetchVars
  /\ UNCHANGED tileVars

Next ==
  \/ Post
  \/ Normalize
  \/ ClassifyWebsite
  \/ ClassifyNoWebsite
  \/ Emit

Spec == Init /\ [][Next]_vars

(***************************************************************************)
(* tile_bbox.  Its arithmetic is Python's float arithmetic: every          *)
(* operation gives the representable number nearest to the exact result (a *)
(* tie goes to the even significand).  A number is held as a count of the  *)
(* smallest step of the format; the coordinate 1.0 is Unit steps.          *)
(***************************************************************************)
Unit == 2 ^ (MantissaBits + 1)

\* The spacing of the representable numbers around num / den.
RECURSIVE UlpFrom(_, _, _)
UlpFrom(num, den, u) ==
  IF num < u * (2 ^ MantissaBits) * den THEN u ELSE UlpFrom(num, den, 2 * u)

\* The float nearest to num / den (num >= 0, den > 0).
FRound(num, den) ==
  LET u == UlpFrom(num, den, 1)
      d == den * u
      q == num \div d
      r == num % d
  IN IF 2 * r < d THEN q * u
     ELSE IF 2 * r > d THEN (q + 1) * u
     ELSE IF q % 2 = 0 THEN q * u ELSE (q + 1) * u

FAdd(x, y) == FRound(x + y, 1)
FSub(x, y) == FRound(x - y, 1)
\* k * x and x / k for an int k (converted exactly).
FMul(k, x) == FRound(k * x, 1)
FDiv(x, k) == FRound(x, k)

tile_bbox(box, rows, cols) ==
  LET s == box[1]
      w == box[2]
      n == box[3]
      e == box[4]
      lat_step == FDiv(FSub(n, s), rows)
      lon_step == FDiv(FSub(e, w), cols)
      Tile(r, c) == <<FAdd(s, FMul(r, lat_step)), FAdd(w, FMul(c, lon_step)),
                      FAdd(s, FMul(r + 1, lat_step)),
                      FAdd(w, FMul(c + 1, lon_step))>>
  IN [k \in 1..(rows * cols) |-> Tile((k - 1) \div cols, (k - 1) % cols)]

\* The whole-number coordinates up to MaxCoord that are floats.
Coords == {x \in {c * Unit : c \in 0..MaxCoord} : FRound(x, 1) = x}

\* (south, west, north, east) with south < north and west < east.
Boxes == {<<s, w, n, e>> : s \in Coords, w \in Coords, n \in Coords, e \in Coords}

\* tile_bbox is about to be called on some box, with some counts.
TileInit ==
  /\ MainInit
  /\ bbox \in {b \in Boxes : b[1] < b[3] /\ b[2] < b[4]}
  /\ nrows \in 1..MaxRows
  /\ ncols \in 1..MaxRows
  /\ tiles = <<>>

TileCall ==
  /\ tiles = <<>>
  /\ tiles' = tile_bbox(bbox, nrows, ncols)
  /\ UNCHANGED <<bbox, nrows, ncols>>
  /\ UNCHANGED progVars

TileNext == TileCall

TileSpec == TileInit /\ [][TileNext]_vars


(***************************************************************************)
(* Properties.                                                             *)
(***************************************************************************)
\* The i-th request of a call in the order (mirror 1, attempts 1..N),
\* (mirror 2, attempts 1..N), ...
Canon(i) == <<((i - 1) \div max_attempts) + 1, ((i - 1) % max_attempts) + 1>>
MaxRequests == NumEndpoints * max_attempts

\* Answers that are a non-200 status or a transport failure.
FailedAnswers == {"HTTP 500", "ConnectionError"}

SentInOrder ==
  /\ Len(sent) <= MaxRequests
  /\ \A i \in 1..Len(sent) : sent[i] = Canon(i)

\* C1 as stated: the requests of a call follow the order (mirror 1, attempts
\* 1..N), (mirror 2, attempts 1..N), ..., at most mirrors x N of them, only a
\* non-200 status or a transport failure is followed by another request, and
\* the call stops sending at the first 200 response.
C1_AsStated ==
  /\ SentInOrder
  /\ (ret = "pending" /\ sent # <<>>) => lastResp \in FailedAnswers

\* C1, amended: the requests of a call follow the order (mirror 1, attempts
\* 1..N), (mirror 2, attempts 1..N), ..., at most mirrors x N of them; while
\* the call runs the next request is the next of that order (same mirror
\* until N attempts are used, then the next mirror, never an earlier one);
\* the call goes on only after a failed attempt, which is a non-200 status, a
\* transport failure or a 200 response whose body does not decode; and it
\* stops sending at the first 200 response whose body decodes.
C1_RequestOrder ==
  /\ SentInOrder
  /\ ret = "pending" =>
       /\ Len(sent) < MaxRequests
       /\ <<endpoint, attempt>> = Canon(Len(sent) + 1)
  /\ (ret = "pending" /\ sent # <<>>) =>
       lastResp \in FailedAnswers \cup {"bad_json"}
  /\ lastResp = "ok" => ret = "ok"

\* Mirror 1 used its N attempts, mirror 2 failed once and then answered 200.
C1_Witness ==
  /\ ret = "ok"
  /\ lastResp = "ok"
  /\ Len(sent) = max_attempts + 2
  /\ sent[Len(sent)] = <<2, 2>>


Fatal == ret \in {"RuntimeError", "JSONDecodeError"}

\* C2 as stated: a call fails fatally exactly when every mirror/attempt
\* combination failed, its error then carries the detail of the last attempt
\* on the last mirror, and otherwise the call returns at its first 200
\* response.
C2_AsStated ==
  /\ Fatal <=> (Len(sent) = MaxRequests /\ lastResp \in FailedAnswers)
  /\ Fatal =>
       /\ sent[Len(sent)] = <<NumEndpoints, max_attempts>>
       /\ error.last_err = [endpoint |-> NumEndpoints, detail |-> lastResp]
  /\ lastResp \in {"ok", "bad_json"} => ret = "ok"

\* The detail last_err holds for an answer.
DetailOf(answer) == IF answer = "bad_json" THEN "JSONDecodeError" ELSE answer

\* The last answer is a failure the retry loop handles: a non-200 status, a
\* transport failure, or an undecodable body raised as a RequestException.
AnswerFailed ==
  \/ lastResp \in FailedAnswers
  \/ lastResp = "bad_json" /\ json_errors = "RequestException"

\* C2, amended: a call raises its RuntimeError exactly when every
\* mirror/attempt combination failed (non-200 status, transport failure, or a
\* 200 response with an undecodable body caught as a RequestException), and
\* the error then carries the detail of the last attempt on the last mirror;
\* the only other fatal end is the decode error of a 200 response that an
\* older requests lets propagate; in every other case the call returns the
\* decoded body of the first 200 response whose body decodes.
C2_FatalIffExhausted ==
  /\ ret = "RuntimeError" <=> (Len(sent) = MaxRequests /\ AnswerFailed)
  /\ ret = "RuntimeError" =>
       /\ pc = "aborted"
       /\ tile \in exhausted
       /\ sent[Len(sent)] = <<NumEndpoints, max_attempts>>
       /\ error = [type |-> "RuntimeError",
                   last_err |-> [endpoint |-> NumEndpoints,
                                 detail |-> DetailOf(lastResp)]]
  /\ ret = "JSONDecodeError" =>
       /\ lastResp = "bad_json"
       /\ json_errors = "unknown"
       /\ error.type = "JSONDecodeError"
  /\ lastResp = "ok" => (ret = "ok" /\ error = NoError)
  /\ (ret = "ok" /\ sent # <<>>) => lastResp = "ok"

\* Every combination failed, the last one by a transport failure, after an
\* earlier failure of another kind.
C2_Witness ==
  /\ ret = "RuntimeError"
  /\ lastResp = "ConnectionError"
  /\ error.last_err = [endpoint |-> NumEndpoints, detail |-> "ConnectionError"]

\* C3 as stated: once a mirror/attempt answers 200, the attempts that failed
\* before it do not make the call end in its fatal error.
C3_AsStated ==
  lastResp \in {"ok", "bad_json"} => ret # "RuntimeError"

\* C3, amended: once a mirror/attempt answers 200 with a body that decodes,
\* whatever failed before, the call returns, nothing is raised, and the
\* elements of that answer are in the entity list (by identity).
C3_OkAfterFailures ==
  lastResp = "ok" =>
    /\ ret = "ok"
    /\ pc # "aborted"
    /\ error = NoError
    /\ exhausted = {}
    /\ \A i \in 1..Len(data) :
         /\ IdKey(data[i]) \in seen_ids
         /\ \E j \in 1..Len(all_elements) :
              IdKey(all_elements[j]) = IdKey(data[i])

\* Mirror 1 failed on all its attempts, then mirror 2 answered 200 with
\* elements.
C3_Witness ==
  /\ lastResp = "ok"
  /\ sent[Len(sent)] = <<2, 1>>
  /\ data # <<>>
  /\ all_elements # <<>>


\* C4: when the fetch of a tile fails fatally the run is over: no later tile
\* is queried, nothing is normalised or classified, neither output is
\* written, and no step follows; an output is written only after every tile
\* was fetched.
C4_FatalTileAbortsRun ==
  /\ (exhausted # {} \/ Fatal) =>
       /\ pc = "aborted"
       /\ error # NoError
       /\ tile <= NumTiles
       /\ exhausted \subseteq {tile}
       /\ restaurants = <<>>
       /\ audit_rows = <<>>
       /\ lastSite = NoSite
       /\ audit_csv = NotWritten
       /\ no_app_csv = NotWritten
       /\ ~ENABLED Next
  /\ (audit_csv # NotWritten \/ no_app_csv # NotWritten) =>
       /\ tile = NumTiles + 1
       /\ exhausted = {}
       /\ error = NoError

\* An earlier tile delivered elements, then a tile failed on every mirror and
\* attempt.
C4_Witness ==
  /\ exhausted = {2}
  /\ pc = "aborted"
  /\ all_elements # <<>>
  /\ audit_csv = NotWritten


\* The index in seq of the first element with identity id.
FirstIdx(seq, id) ==
  CHOOSE i \in 1..Len(seq) :
    /\ IdKey(seq[i]) = id
    /\ \A j \in 1..(i - 1) : IdKey(seq[j]) # id

\* C5: whatever the tiles returned, the entity list holds each (kind, id)
\* identity of the tiles' elements exactly once, the element kept for an
\* identity is its first occurrence in fetch order, and the kept elements are
\* in first-seen order.
C5_FirstSeenOncePerIdentity ==
  pc \in {"fetch", "normalize", "aborted"} =>
    /\ {IdKey(raw[i]) : i \in 1..Len(raw)}
         = {IdKey(all_elements[k]) : k \in 1..Len(all_elements)}
    /\ \A k, l \in 1..Len(all_elements) :
         k # l => IdKey(all_elements[k]) # IdKey(all_elements[l])
    /\ \A k \in 1..Len(all_elements) :
         all_elements[k] = raw[FirstIdx(raw, IdKey(all_elements[k]))]
    /\ \A k, l \in 1..Len(all_elements) :
         k < l => FirstIdx(raw, IdKey(all_elements[k]))
                    < FirstIdx(raw, IdKey(all_elements[l]))

\* A tile returned node 1 without its name, a later tile returned node 1 with
\* it: the first is kept.
C5_Witness ==
  /\ pc = "normalize"
  /\ raw = <<ElCafeNodeNameless, ElCafeNode>>
  /\ data = <<ElCafeNode>>
  /\ all_elements = <<ElCafeNodeNameless>>

\* The coordinates part of a key.
KeyCoords(r) ==
  IF r.lat = NoCoord \/ r.lon = NoCoord THEN <<>>
  ELSE <<Round4(r.lat), Round4(r.lon)>>

\* The key as C6 words it: the name lower-cased, the website lower-cased, the
\* coordinates rounded to 4 decimals or absent.
LowerKey(r) ==
  [n |-> Str(r.name.pad, LowerText(r.name.text)), w |-> LowerUrl(r.website),
   coords |-> KeyCoords(r)]

\* The same with the name also stripped of the whitespace around it.
StrippedKey(r) ==
  [n |-> LowerText(r.name.text), w |-> LowerUrl(r.website),
   coords |-> KeyCoords(r)]

\* The restaurants of the named elements, in order, before the key is applied.
Candidates ==
  LET named == SelectSeq(all_elements, LAMBDA el : Truthy(el.name))
  IN [i \in 1..Len(named) |-> RestaurantOf(named[i])]

SameRestaurant(row, r) ==
  /\ row.osm_type = r.osm_type
  /\ row.osm_id = r.osm_id
  /\ row.name = r.name

\* C6 as stated, with the key of lower-cased name, lower-cased website and
\* rounded coordinates: no two rows of the full audit share the key, and of
\* the restaurants with one key exactly one has a row, the first seen.
C6_AsStated ==
  pc = "done" =>
    /\ \A i, j \in 1..Len(audit_csv.rows) :
         i # j => LowerKey(audit_csv.rows[i]) # LowerKey(audit_csv.rows[j])
    /\ \A c \in 1..Len(Candidates) :
         \E i \in 1..Len(audit_csv.rows) :
           /\ LowerKey(audit_csv.rows[i]) = LowerKey(Candidates[c])
           /\ \E f \in 1..c :
                /\ LowerKey(Candidates[f]) = LowerKey(Candidates[c])
                /\ \A g \in 1..(f - 1) :
                     LowerKey(Candidates[g]) # LowerKey(Candidates[c])
                /\ SameRestaurant(audit_csv.rows[i], Candidates[f])

\* C6, amended: with the key of the name stripped and lower-cased, the
\* website lower-cased and the coordinates rounded to 4 decimals (or absent),
\* no two rows of the audit share the key, and of the restaurants with one
\* key exactly one has a row in the full audit, the first seen.
C6_OneRowPerKey ==
  /\ \A i, j \in 1..Len(audit_rows) :
       i # j => StrippedKey(audit_rows[i]) # StrippedKey(audit_rows[j])
  /\ pc = "done" =>
       /\ \A i, j \in 1..Len(audit_csv.rows) :
            i # j => /\ StrippedKey(audit_csv.rows[i]) # StrippedKey(audit_csv.rows[j])
                     /\ LowerKey(audit_csv.rows[i]) # LowerKey(audit_csv.rows[j])
       /\ \A c \in 1..Len(Candidates) :
            \E i \in 1..Len(audit_csv.rows) :
              /\ StrippedKey(audit_csv.rows[i]) = StrippedKey(Candidates[c])
              /\ \E f \in 1..c :
                   /\ StrippedKey(Candidates[f]) = StrippedKey(Candidates[c])
                   /\ \A g \in 1..(f - 1) :
                        StrippedKey(Candidates[g]) # StrippedKey(Candidates[c])
                   /\ SameRestaurant(audit_csv.rows[i], Candidates[f])

\* Two OSM objects of one restaurant (names differing in case, coordinates
\* equal after rounding): one row, that of the first seen.
C6_Witness ==
  /\ pc = "done"
  /\ all_elements = <<ElCafeWay, ElCafeNode>>
  /\ Len(audit_csv.rows) = 1
  /\ audit_csv.rows[1].osm_id = 2


Rows(file) == {file.rows[i] : i \in 1..Len(file.rows)}

\* C7: a row of the full audit is in the no-app output exactly when its
\* website is non-empty, has_any_app is 0, its confidence is at least 0.80 and
\* its notes is no_store_links_found_on_homepage or
\* app_text_hint_but_no_store_link; so the no-app rows are audit rows, none
\* with an empty website, none with a confidence below 0.80.
C7_NoAppFilter ==
  pc = "done" =>
    /\ no_app_csv.written
    /\ \A row \in Rows(audit_csv) :
         row \in Rows(no_app_csv) <=>
           /\ row.website # EmptyUrl
           /\ row.has_any_app = 0
           /\ row.confidence >= 80
           /\ row.notes.code \in {"no_store_links_found_on_homepage",
                                  "app_text_hint_but_no_store_link"}
    /\ Rows(no_app_csv) \subseteq Rows(audit_csv)
    /\ \A row \in Rows(no_app_csv) :
         row.website # EmptyUrl /\ row.confidence >= 80

\* A homepage without any app signal is in the no-app output; one with only
\* a text hint (confidence 0.60) and a restaurant without website are not.
C7_Witness ==
  /\ pc = "done"
  /\ Len(no_app_csv.rows) = 1
  /\ Len(audit_csv.rows) = 2
  /\ \E row \in Rows(audit_csv) :
       row.notes.code \in {"app_text_hint_but_no_store_link", "no_website_in_osm"}

LastRow == audit_rows[Len(audit_rows)]

\* The page was fetched (no transport error, status below 400) and holds an
\* app-store link of either kind.
FetchedWithStoreLink(site) ==
  /\ site.exc = None
  /\ site.status = 200
  /\ ("play_details" \in site.hrefs \/ "apple" \in site.hrefs)

\* C8 as stated: a page fetched with a status below 400 that holds a store
\* link and the download phrase always gets store_link_found_on_website with
\* confidence 0.95.
C8_AsStated ==
  (audit_rows # <<>> /\ FetchedWithStoreLink(lastSite) /\ lastSite.hint) =>
    /\ LastRow.notes = Note("store_link_found_on_website", "")
    /\ LastRow.confidence = 95

\* C8, amended: a page fetched with a status below 400 that holds a store
\* link and the download phrase gets store_link_found_on_website with
\* confidence 0.95 when the parsing of its anchors raises nothing, and
\* parse_error:<kind> with confidence 0.20 when it raises; it never gets
\* app_text_hint_but_no_store_link, which is given only to a page with the
\* phrase and without store link of either kind.
C8_StoreLinkBeforeHint ==
  audit_rows # <<>> =>
    /\ (FetchedWithStoreLink(lastSite) /\ lastSite.hint) =>
         IF "bad" \in lastSite.hrefs
         THEN /\ LastRow.notes = Note("parse_error:", "ValueError")
              /\ LastRow.confidence = 20
         ELSE /\ LastRow.notes = Note("store_link_found_on_website", "")
              /\ LastRow.confidence = 95
              /\ LastRow.has_any_app = 1
    /\ LastRow.notes.code = "app_text_hint_but_no_store_link" =>
         /\ lastSite.hint
         /\ lastSite.status = 200
         /\ "play_details" \notin lastSite.hrefs
         /\ "apple" \notin lastSite.hrefs

\* A page with the download phrase and links to both stores.
C8_Witness ==
  /\ audit_rows # <<>>
  /\ lastSite.hint
  /\ {"play_details", "apple"} \subseteq lastSite.hrefs
  /\ LastRow.notes.code = "store_link_found_on_website"
  /\ LastRow.has_android_app = 1
  /\ LastRow.has_ios_app = 1

\* C9: a transport error, a status of 400 or more or a parse exception while
\* a website is inspected gives a verdict with confidence 0.20 and the notes
\* request_error:<kind>, http_<status> or parse_error:<kind>; it never ends the
\* run: the loop goes on with the next restaurant and every de-duplicated
\* restaurant has exactly one row, in order, in the full audit.
C9_SiteFailuresRecovered ==
  /\ (audit_rows # <<>> /\ lastSite.exc # None) =>
       /\ LastRow.notes = Note("request_error:", lastSite.exc)
       /\ LastRow.confidence = 20
  /\ (audit_rows # <<>> /\ lastSite.exc = None /\ lastSite.status >= 400) =>
       /\ LastRow.notes = Note("http_", "404")
       /\ LastRow.confidence = 20
  /\ (audit_rows # <<>> /\ lastSite.exc = None /\ lastSite.status = 200
        /\ "bad" \in lastSite.hrefs) =>
       /\ LastRow.notes = Note("parse_error:", "ValueError")
       /\ LastRow.confidence = 20
  /\ (pc = "aborted" \/ error # NoError) =>
       (audit_rows = <<>> /\ lastSite = NoSite /\ restaurants = <<>>)
  /\ Len(audit_rows) <= Len(restaurants)
  /\ \A i \in 1..Len(audit_rows) : SameRestaurant(audit_rows[i], restaurants[i])
  /\ pc = "classify" =>
       /\ Len(audit_rows) < Len(restaurants)
       /\ ENABLED (ClassifyWebsite \/ ClassifyNoWebsite)
  /\ pc \in {"emit", "done"} => Len(audit_rows) = Len(restaurants)
  /\ pc = "done" => (audit_csv.written /\ audit_csv.rows = audit_rows)

\* The first website could not be reached, the second was inspected, and
\* both restaurants are in the full audit.
C9_Witness ==
  /\ pc = "done"
  /\ Len(restaurants) = 2
  /\ Len(audit_csv.rows) = 2
  /\ audit_csv.rows[1].notes.code = "request_error:"
  /\ audit_csv.rows[2].notes.code \in {"parse_error:", "http_"}

\* The element a row comes from.
ElementOfRow(row) ==
  CHOOSE el \in {all_elements[k] : k \in 1..Len(all_elements)} :
    IdKey(el) = <<row.osm_type, row.osm_id>>

\* The element has a website value and normalize_url rejects it.
MalformedWebsite(el) ==
  /\ UrlTruthy(WebsiteTag(el))
  /\ normalize_url(WebsiteTag(el)) = NoUrl

\* C10: the row of a restaurant whose website value fails the URL
\* normalisation carries invalid_website_url with confidence 0.10 and no app
\* flag, and no exception ends the run.
C10_MalformedRecovered ==
  /\ \A i \in 1..Len(audit_rows) :
       MalformedWebsite(ElementOfRow(audit_rows[i])) =>
         /\ audit_rows[i].notes = Note("invalid_website_url", "")
         /\ audit_rows[i].confidence = 10
         /\ audit_rows[i].has_any_app = 0
  /\ audit_rows # <<>> => error = NoError

\* The number of calls of the classifier for the restaurant of index i.
Calls(i) == Cardinality({k \in 1..Len(scraped) : scraped[k] = i})

\* C11: the classifier is called exactly once for each de-duplicated
\* restaurant with a non-empty website and never for one with an empty
\* website, which gets the fixed verdict no_website_in_osm with confidence
\* 0.20 and no app flag.
C11_ClassifierOncePerWebsite ==
  /\ \A i \in 1..Len(restaurants) :
       Calls(i) = IF i <= Len(audit_rows) /\ restaurants[i].website # EmptyUrl
                  THEN 1 ELSE 0
  /\ \A k \in 1..Len(scraped) : scraped[k] \in 1..Len(restaurants)
  /\ \A i \in 1..Len(audit_rows) :
       restaurants[i].website = EmptyUrl =>
         /\ audit_rows[i].notes = Note("no_website_in_osm", "")
         /\ audit_rows[i].confidence = 20
         /\ audit_rows[i].has_android_app = 0
         /\ audit_rows[i].has_ios_app = 0
         /\ audit_rows[i].has_any_app = 0
  /\ pc \in {"emit", "done"} => Len(audit_rows) = Len(restaurants)

\* Two restaurants, the first without website, the second with one: one call.
C11_Witness ==
  /\ pc = "done"
  /\ Len(restaurants) = 2
  /\ restaurants[1].website = EmptyUrl
  /\ restaurants[2].website # EmptyUrl
  /\ scraped = <<2>>
  /\ audit_csv.rows[1].notes.code = "no_website_in_osm"

\* The confidence, in 1/100, that goes with a notes code.
ConfidenceOf(code) ==
  CASE code = "invalid_website_url" -> 10
    [] code \in {"request_error:", "http_", "parse_error:",
                 "no_website_in_osm"} -> 20
    [] code = "app_text_hint_but_no_store_link" -> 60
    [] code = "no_store_links_found_on_homepage" -> 85
    [] code = "store_link_found_on_website" -> 95
    [] OTHER -> 0 - 1

\* The same pairing in every verdict the classifier can return, whatever
\* the website value and the website's behaviour.
VerdictsPaired ==
  \A el \in Elements, site \in Sites :
    LET v == scrape_website_for_app_links(WebsiteTag(el), site) IN
      /\ Fmt2(v.confidence) = ConfidenceOf(v.notes.code)
      /\ (v.has_android_app \/ v.has_ios_app)
           <=> v.notes.code = "store_link_found_on_website"

\* C12: every row of the audit pairs its notes code with the confidence of
\* that outcome (invalid_website_url 0.10; request_error, http_<status>,
\* parse_error and no_website_in_osm 0.20; app_text_hint_but_no_store_link
\* 0.60; no_store_links_found_on_homepage 0.85; store_link_found_on_website
\* 0.95), so the confidence is in [0, 1]; has_any_app is android OR ios and is
\* set exactly when the notes are store_link_found_on_website.
C12_NotesFixConfidence ==
  /\ VerdictsPaired
  /\ \A i \in 1..Len(audit_rows) :
    LET row == audit_rows[i] IN
      /\ row.confidence = ConfidenceOf(row.notes.code)
      /\ row.confidence \in 0..100
      /\ row.has_any_app = 1 <=> (row.has_android_app = 1 \/ row.has_ios_app = 1)
      /\ row.has_any_app = 1 <=> row.notes.code = "store_link_found_on_website"
      /\ row.has_any_app \in {0, 1}

\* A page with a link to one store only, after a page with the download
\* phrase only.
C12_Witness ==
  /\ Len(audit_rows) = 2
  /\ audit_rows[1].notes.code = "app_text_hint_but_no_store_link"
  /\ audit_rows[1].confidence = 60
  /\ audit_rows[2].notes.code = "store_link_found_on_website"
  /\ audit_rows[2].has_android_app = 1
  /\ audit_rows[2].has_ios_app = 0
  /\ audit_rows[2].confidence = 95

\* The tile of row r and column c (both from 0) of the result.
TileAt(r, c) == tiles[r * ncols + c + 1]

\* C13: for every bounding box (south < north, west < east) and all row and
\* column counts >= 1, tile_bbox returns rows * cols tiles, rows outer and
\* columns inner, that cover the box without gap: the first row starts at
\* south and the last row ends at north, the first column starts at west and
\* the last column ends at east, and the north (east) edge of a tile is the
\* south (west) edge of the next tile of its column (row).
C13_TilesCoverBox ==
  tiles # <<>> =>
    /\ Len(tiles) = nrows * ncols
    /\ \A c \in 0..(ncols - 1) :
         /\ TileAt(0, c)[1] = bbox[1]
         /\ TileAt(nrows - 1, c)[3] = bbox[3]
         /\ \A r \in 0..(nrows - 2) : TileAt(r, c)[3] = TileAt(r + 1, c)[1]
    /\ \A r \in 0..(nrows - 1) :
         /\ TileAt(r, 0)[2] = bbox[2]
         /\ TileAt(r, ncols - 1)[4] = bbox[4]
         /\ \A c \in 0..(ncols - 2) : TileAt(r, c)[4] = TileAt(r, c + 1)[2]
    /\ \A r \in 0..(nrows - 1), c \in 0..(ncols - 1) :
         /\ TileAt(r, c)[1] = TileAt(r, 0)[1]
         /\ TileAt(r, c)[2] = TileAt(0, c)[2]

\* The restaurants made from the element el.
RecordsOf(el) ==
  {i \in 1..Len(restaurants) :
     <<restaurants[i].osm_type, restaurants[i].osm_id>> = IdKey(el)}

BackoffOfAttempts ==
  /\ Len(sleeps) <= Len(sent)
  /\ \A i \in 1..Len(sleeps) : sleeps[i] = 2 ^ sent[i][2]
  /\ \A i \in 1..(Len(sent) - 1) :
       /\ i <= Len(sleeps)
       /\ IF sent[i][2] < max_attempts
          THEN /\ sent[i + 1] = <<sent[i][1], sent[i][2] + 1>>
               /\ (i + 1 <= Len(sleeps)) => sleeps[i + 1] > sleeps[i]
          ELSE /\ sent[i + 1] = <<sent[i][1] + 1, 1>>
               /\ (i + 1 <= Len(sleeps)) => sleeps[i + 1] = 2

\* C15 as stated: after a non-success response on attempt k the fetcher
\* sleeps 2^k seconds before its next request, which goes to the same mirror
\* (to the next one, as attempt 1, when the attempts are used up), and no
\* backoff sleep happens after a 200 response.
C15_AsStated ==
  /\ BackoffOfAttempts
  /\ lastResp \in FailedAnswers => Len(sleeps) = Len(sent)
  /\ lastResp \in {"ok", "bad_json"} => Len(sleeps) = Len(sent) - 1

\* C15, amended: after a failed attempt k on a mirror (a non-200 status, a
\* transport failure, or a 200 response whose body does not decode and is
\* raised as a RequestException) the fetcher sleeps 2^k seconds, also after
\* the very last attempt; its next request goes to the same mirror as attempt
\* k + 1 while k is below the number of attempts, and to the next mirror as
\* attempt 1 otherwise; no backoff sleep happens after a 200 response whose
\* body decodes, nor when the decode error leaves the call.
C15_BackoffSchedule ==
  /\ BackoffOfAttempts
  /\ AnswerFailed => Len(sleeps) = Len(sent)
  /\ lastResp = "ok" => Len(sleeps) = Len(sent) - 1
  /\ ret = "JSONDecodeError" => Len(sleeps) = Len(sent) - 1
  /\ (ret = "pending" /\ sent # <<>>) =>
       /\ Len(sleeps) = Len(sent)
       /\ <<endpoint, attempt>> =
            IF sent[Len(sent)][2] < max_attempts
            THEN <<sent[Len(sent)][1], sent[Len(sent)][2] + 1>>
            ELSE <<sent[Len(sent)][1] + 1, 1>>
  /\ ret = "RuntimeError" => sleeps[Len(sleeps)] = 2 ^ max_attempts

\* Mirror 1 failed four times and mirror 2 once: the sleeps were 2, 4, 8, 16
\* and 2 seconds, and the next request is attempt 2 on mirror 2.
C15_Witness ==
  /\ ret = "pending"
  /\ sleeps = <<2, 4, 8, 16, 2>>
  /\ sent[Len(sent)] = <<2, 1>>
  /\ <<endpoint, attempt>> = <<2, 2>>

\* C16: no row with the notes app_text_hint_but_no_store_link is in the
\* no-app output, although the filter admits that code, because its
\* confidence is always 0.60; the no-app output holds exactly the audit rows
\* whose notes is no_store_links_found_on_homepage, in the audit's order.
C16_HintNeverNoApp ==
  /\ \A i \in 1..Len(audit_rows) :
       audit_rows[i].notes.code = "app_text_hint_but_no_store_link" =>
         /\ audit_rows[i].confidence = 60
         /\ audit_rows[i].confidence < NO_APP_CONF_THRESHOLD
         /\ ~IsNoApp(audit_rows[i])
  /\ pc = "done" =>
       /\ \A row \in Rows(no_app_csv) :
            row.notes.code # "app_text_hint_but_no_store_link"
       /\ Rows(no_app_csv) =
            {row \in Rows(audit_csv) :
               row.notes.code = "no_store_links_found_on_homepage"}
       /\ Len(no_app_csv.rows) =
            Cardinality({i \in 1..Len(audit_csv.rows) :
               audit_csv.rows[i].notes.code = "no_store_links_found_on_homepage"})

\* Both audit rows come from pages without store link, the first with the
\* download phrase: only the second is in the no-app output.
C16_Witness ==
  /\ pc = "done"
  /\ Len(audit_csv.rows) = 2
  /\ audit_csv.rows[1].notes.code = "app_text_hint_but_no_store_link"
  /\ audit_csv.rows[2].notes.code = "no_store_links_found_on_homepage"
  /\ no_app_csv.rows = <<audit_csv.rows[2]>>

=============================================================================
